---- MODULE Spec2Model ----
(***************************************************************************)
(* The FastAPI template service of templates/fastapi/app/main.py: one      *)
(* application object (metadata, CORS middleware, route table, the cached  *)
(* OpenAPI schema) and the ASGI call chain a request goes through:         *)
(*   CORSMiddleware -> router -> endpoint -> CORSMiddleware.send.          *)
(* The framework calls of main.py (FastAPI(...), add_middleware,           *)
(* @app.get) are modelled by what FastAPI/Starlette do for them.           *)
(***************************************************************************)
EXTENDS Naturals, Sequences, FiniteSets, TLC

VARIABLES app, last, inflight

vars == <<app, last, inflight>>

None == "None"

\* Number of requests the event loop handles at the same time.
MaxInFlight == 2

Slots == 1..MaxInFlight

-----------------------------------------------------------------------------
(* Requests.  A path is the sequence of its segments after the leading     *)
(* slash: "/" is <<"">>, "/health" is <<"health">>, "/health/" is          *)
(* <<"health", "">>, "/health//" is <<"health", "", "">>, "//" is          *)
(* <<"", "">>.                                                             *)

PathRoot == <<"">>
PathHealth == <<"health">>
PathHealthSlash == <<"health", "">>
PathHealthSlashes == <<"health", "", "">>
PathNonexistent == <<"nonexistent">>
PathDocs == <<"docs">>
PathOpenapi == <<"openapi.json">>
PathRedoc == <<"redoc">>
PathDoubleSlash == <<"", "">>

Origin1 == "https://client.example"
Origin2 == "https://other.example"

Methods == {"GET", "HEAD", "POST", "OPTIONS"}

Paths ==
    {PathRoot, PathHealth, PathHealthSlash, PathHealthSlashes, PathNonexistent,
     PathDocs, PathOpenapi, PathRedoc, PathDoubleSlash}

\* origin, acrm, acrh: the Origin, Access-Control-Request-Method and
\* Access-Control-Request-Headers headers (None when absent); cookie: a
\* Cookie header is present; extra: a query string and a body are present.
Requests ==
    [method : Methods, path : Paths, origin : {None, Origin1, Origin2},
     acrm : {None, "GET", "TRACE"}, acrh : {None, "x-custom"},
     cookie : BOOLEAN, extra : BOOLEAN]

\* The requests of the interleaved specification: browser-shaped requests
\* (a preflight header only on OPTIONS, no cookie, no payload).
ConcRequests ==
    {r \in Requests :
        /\ r.method \in {"GET", "OPTIONS"}
        /\ r.path \in {PathRoot, PathOpenapi, PathNonexistent}
        /\ r.origin \in {None, Origin1}
        /\ r.acrm = (IF r.method = "OPTIONS" THEN "GET" ELSE None)
        /\ r.acrh = None /\ ~r.cookie /\ ~r.extra}

-----------------------------------------------------------------------------
(* Application construction: main.py lines 4-25.                           *)

\* Mutant of root: the message in another letter case.
root_other_case == <<"message", "Welcome to FastAPI application">>

\* The payloads of the two handlers (JSON objects as key, value).
root == <<"message", "Welcome to FastAPI Application">>

\* Mutant of health_check: another status word.
health_check_ok == <<"status", "ok">>

health_check == <<"status", "healthy">>

\* FastAPI.setup(): the documentation routes FastAPI() registers by default
\* (openapi_url="/openapi.json", docs_url="/docs", redoc_url="/redoc"),
\* added through Starlette's add_route, which allows GET and HEAD.
setup ==
    << [path |-> PathOpenapi, methods |-> {"GET", "HEAD"}, endpoint |-> "openapi"],
       [path |-> PathDocs, methods |-> {"GET", "HEAD"}, endpoint |-> "swagger_ui_html"],
       [path |-> <<"docs", "oauth2-redirect">>, methods |-> {"GET", "HEAD"},
        endpoint |-> "swagger_ui_redirect"],
       [path |-> PathRedoc, methods |-> {"GET", "HEAD"}, endpoint |-> "redoc_html"] >>

\* app = FastAPI(title=..., description=..., version=...)
FastAPI ==
    [title |-> "FastAPI Application",
     description |-> "A modern FastAPI application with PostgreSQL",
     version |-> "1.0.0",
     routes |-> setup,
     cors |-> None,
     openapi_schema |-> <<>>]

\* Mutant of add_middleware: allow_credentials left at its default, False.
add_middleware_no_credentials(a) ==
    [a EXCEPT !.cors = [allow_origins |-> {"*"}, allow_credentials |-> FALSE,
                        allow_methods |-> {"*"}, allow_headers |-> {"*"}]]

\* app.add_middleware(CORSMiddleware, allow_origins=["*"], ...)
add_middleware(a) ==
    [a EXCEPT !.cors = [allow_origins |-> {"*"}, allow_credentials |-> TRUE,
                        allow_methods |-> {"*"}, allow_headers |-> {"*"}]]

\* Mutant of get: the route accepts POST too, as @app.api_route(path,
\* methods=["GET", "POST"]) would.
get_or_post(a, path, endpoint) ==
    [a EXCEPT !.routes = Append(@, [path |-> path, methods |-> {"GET", "POST"},
                                    endpoint |-> endpoint])]

\* @app.get("/") and @app.get("/health"): APIRoute with methods exactly {GET}.
get(a, path, endpoint) ==
    [a EXCEPT !.routes = Append(@, [path |-> path, methods |-> {"GET"},
                                    endpoint |-> endpoint])]

\* The application object once main.py has been imported.
main == get(get(add_middleware(FastAPI), PathRoot, "root"), PathHealth, "health_check")

-----------------------------------------------------------------------------
(* Responses.  A body is a sequence of strings; a header that is absent is *)
(* None (Access-Control-Allow-Methods: the empty set).                     *)

NoHeaders ==
    [acao |-> None, acac |-> None, acam |-> {}, acah |-> None, acma |-> None,
     vary |-> None, location |-> None]

Response(status, body, headers) == [status |-> status, body |-> body, headers |-> headers]

-----------------------------------------------------------------------------
(* Routing: Starlette's Router over app.routes, with FastAPI's exception   *)
(* handlers for 404 and 405.                                               *)

\* FastAPI.openapi() -> get_openapi(title, version, description, routes):
\* the schema lists the operations of the routes registered by @app.get.
get_openapi(a) ==
    <<"openapi", "3.1.0", "info", a.title, a.description, a.version, "paths">>
      \o [i \in 1..(Len(a.routes) - Len(setup)) |-> a.routes[Len(setup) + i].endpoint]

\* Mutant of openapi: every call adds the generated schema to the kept one.
openapi_accumulating(a) ==
    [a EXCEPT !.openapi_schema = IF Len(@) > Len(get_openapi(a)) THEN @
                                 ELSE @ \o get_openapi(a)]

\* FastAPI.openapi(): the schema is generated on the first call and kept in
\* app.openapi_schema; later calls return the kept one.
openapi(a) ==
    IF a.openapi_schema = <<>>
    THEN [a EXCEPT !.openapi_schema = get_openapi(a)]
    ELSE a

\* Mutant of Endpoint: health_check records the probe in the application
\* object.
Endpoint_stateful(a, name) ==
    CASE name = "root" ->
            [resp |-> Response(200, root, NoHeaders), app |-> a]
      [] name = "health_check" ->
            [resp |-> Response(200, health_check, NoHeaders),
             app |-> [a EXCEPT !.description = "healthy"]]
      [] name = "openapi" ->
            [resp |-> Response(200, openapi(a).openapi_schema, NoHeaders),
             app |-> openapi(a)]
      [] name = "swagger_ui_html" ->
            [resp |-> Response(200, <<"html", "swagger-ui", a.title>>, NoHeaders),
             app |-> a]
      [] name = "swagger_ui_redirect" ->
            [resp |-> Response(200, <<"html", "oauth2-redirect">>, NoHeaders), app |-> a]
      [] name = "redoc_html" ->
            [resp |-> Response(200, <<"html", "redoc", a.title>>, NoHeaders), app |-> a]

\* Running an endpoint: its response and the application object afterwards.
Endpoint(a, name) ==
    CASE name = "root" ->
            [resp |-> Response(200, root, NoHeaders), app |-> a]
      [] name = "health_check" ->
            [resp |-> Response(200, health_check, NoHeaders), app |-> a]
      [] name = "openapi" ->
            [resp |-> Response(200, openapi(a).openapi_schema, NoHeaders),
             app |-> openapi(a)]
      [] name = "swagger_ui_html" ->
            [resp |-> Response(200, <<"html", "swagger-ui", a.title>>, NoHeaders),
             app |-> a]
      [] name = "swagger_ui_redirect" ->
            [resp |-> Response(200, <<"html", "oauth2-redirect">>, NoHeaders), app |-> a]
      [] name = "redoc_html" ->
            [resp |-> Response(200, <<"html", "redoc", a.title>>, NoHeaders), app |-> a]

\* str.rstrip("/") on a path: drop the empty trailing segments.
RECURSIVE rstrip(_)
rstrip(path) ==
    IF Len(path) > 0 /\ path[Len(path)] = ""
    THEN rstrip(SubSeq(path, 1, Len(path) - 1))
    ELSE path

\* Router.__call__, redirect_slashes: the path with its trailing slash toggled.
redirect_path(path) ==
    IF path[Len(path)] = "" THEN rstrip(path) ELSE Append(path, "")

\* Route.matches: FULL when path and method match, PARTIAL when only the
\* path does.
MatchFull(a, r) == {i \in 1..Len(a.routes) :
                        a.routes[i].path = r.path /\ r.method \in a.routes[i].methods}

MatchPartial(a, path) == {i \in 1..Len(a.routes) : a.routes[i].path = path}

First(S) == CHOOSE i \in S : \A j \in S : i <= j

\* Mutant of Router: a catch-all route sends every unmatched path to root.
Router_catch_all(a, r) ==
    IF MatchFull(a, r) # {} THEN
        LET name == a.routes[First(MatchFull(a, r))].endpoint
            out == Endpoint(a, name)
        IN  [resp |-> out.resp, app |-> out.app, trace |-> <<"router", name>>]
    ELSE IF MatchPartial(a, r.path) # {} THEN
        [resp |-> Response(405, <<"detail", "Method Not Allowed">>, NoHeaders),
         app |-> a, trace |-> <<"router", "method_not_allowed">>]
    ELSE
        [resp |-> Endpoint(a, "root").resp, app |-> a, trace |-> <<"router", "root">>]

\* Router.__call__: the first full match runs its endpoint; a partial match
\* answers 405; a path that matches once its trailing slash is toggled is
\* redirected (307); anything else is 404.
Router(a, r) ==
    IF MatchFull(a, r) # {} THEN
        LET name == a.routes[First(MatchFull(a, r))].endpoint
            out == Endpoint(a, name)
        IN  [resp |-> out.resp, app |-> out.app, trace |-> <<"router", name>>]
    ELSE IF MatchPartial(a, r.path) # {} THEN
        [resp |-> Response(405, <<"detail", "Method Not Allowed">>, NoHeaders),
         app |-> a, trace |-> <<"router", "method_not_allowed">>]
    ELSE IF r.path # PathRoot /\ MatchPartial(a, redirect_path(r.path)) # {} THEN
        [resp |-> Response(307, <<>>, [NoHeaders EXCEPT !.location = "toggled-slash"]),
         app |-> a, trace |-> <<"router", "redirect_slashes">>]
    ELSE
        [resp |-> Response(404, <<"detail", "Not Found">>, NoHeaders),
         app |-> a, trace |-> <<"router", "not_found">>]

-----------------------------------------------------------------------------
(* starlette.middleware.cors.CORSMiddleware as configured at lines 11-17.  *)

ALL_METHODS == {"DELETE", "GET", "HEAD", "OPTIONS", "PATCH", "POST", "PUT"}

allow_all_origins(c) == "*" \in c.allow_origins

allow_all_headers(c) == "*" \in c.allow_headers

allow_methods(c) == IF "*" \in c.allow_methods THEN ALL_METHODS ELSE c.allow_methods

\* With credentials allowed a preflight may not answer "*": it names the
\* request's origin (Starlette sets this flag in __init__).
preflight_explicit_allow_origin(c) == ~allow_all_origins(c) \/ c.allow_credentials

is_allowed_origin(c, origin) == allow_all_origins(c) \/ origin \in c.allow_origins

\* __init__: the headers added to every non-preflight CORS response.
simple_headers(c, h) ==
    [h EXCEPT !.acao = IF allow_all_origins(c) THEN "*" ELSE @,
              !.acac = IF c.allow_credentials THEN "true" ELSE @]

\* __init__: the headers every preflight response starts from.
preflight_headers(c) ==
    [NoHeaders EXCEPT
        !.vary = IF preflight_explicit_allow_origin(c) THEN "Origin" ELSE @,
        !.acao = IF preflight_explicit_allow_origin(c) THEN @ ELSE "*",
        !.acam = allow_methods(c),
        !.acma = "600",
        !.acah = IF allow_all_headers(c) THEN @ ELSE "safelisted",
        !.acac = IF c.allow_credentials THEN "true" ELSE @]

\* __call__: a request is a preflight when it is an OPTIONS request with an
\* Origin and an Access-Control-Request-Method header.
is_preflight(r) == r.origin # None /\ r.method = "OPTIONS" /\ r.acrm # None

\* preflight_response: 200 "OK", or 400 naming what is disallowed.
preflight_response(c, r) ==
    LET origin_ok == is_allowed_origin(c, r.origin)
        method_ok == r.acrm \in allow_methods(c)
        headers_ok == r.acrh = None \/ allow_all_headers(c) \/ r.acrh \in c.allow_headers
        failures == (IF origin_ok THEN <<>> ELSE <<"origin">>)
                    \o (IF method_ok THEN <<>> ELSE <<"method">>)
                    \o (IF headers_ok THEN <<>> ELSE <<"headers">>)
        headers == [preflight_headers(c) EXCEPT
                      !.acao = IF origin_ok /\ preflight_explicit_allow_origin(c)
                               THEN r.origin ELSE @,
                      !.acah = IF allow_all_headers(c) /\ r.acrh # None
                               THEN r.acrh ELSE @]
    IN  IF failures # <<>>
        THEN Response(400, <<"Disallowed CORS">> \o failures \o <<"headers">>, headers)
        ELSE Response(200, <<"OK">>, headers)

\* allow_explicit_origin: name the request's origin and vary on it.
allow_explicit_origin(h, origin) == [h EXCEPT !.acao = origin, !.vary = "Origin"]

\* Mutant of send: the headers are added to successful responses only.
send_success_only(c, r, resp) ==
    IF resp.status >= 400 THEN resp
    ELSE [resp EXCEPT !.headers = simple_headers(c, resp.headers)]

\* send: the wrapper around the inner application's response start.
send(c, r, resp) ==
    LET h == simple_headers(c, resp.headers)
    IN  [resp EXCEPT !.headers =
            IF allow_all_origins(c) /\ r.cookie
              THEN allow_explicit_origin(h, r.origin)
            ELSE IF ~allow_all_origins(c) /\ is_allowed_origin(c, r.origin)
              THEN allow_explicit_origin(h, r.origin)
            ELSE h]

\* __call__: the whole chain for one request on application object a.
\* A request without Origin goes to the router untouched; a preflight is
\* answered here; any other request is routed and its response wrapped.
CORSMiddleware(a, r) ==
    IF r.origin = None THEN
        LET out == Router(a, r)
        IN  [resp |-> out.resp, app |-> out.app,
             trace |-> <<"CORSMiddleware">> \o out.trace]
    ELSE IF is_preflight(r) THEN
        [resp |-> preflight_response(a.cors, r), app |-> a,
         trace |-> <<"CORSMiddleware", "preflight_response">>]
    ELSE
        LET out == Router(a, r)
        IN  [resp |-> send(a.cors, r, out.resp), app |-> out.app,
             trace |-> <<"CORSMiddleware">> \o out.trace \o <<"send">>]

-----------------------------------------------------------------------------
(* The service handling one request at a time.                             *)

NoRequest == [method |-> None, path |-> <<>>, origin |-> None, acrm |-> None,
              acrh |-> None, cookie |-> FALSE, extra |-> FALSE]

NoExchange == [req |-> NoRequest, resp |-> Response(0, <<>>, NoHeaders), trace |-> <<>>]

Idle == [pc |-> "idle", req |-> NoRequest, resp |-> Response(0, <<>>, NoHeaders),
         trace |-> <<>>, sent |-> 0]

Init ==
    /\ app = main
    /\ last = NoExchange
    /\ inflight = [s \in Slots |-> Idle]

\* app(scope, receive, send) run to completion for request r, the next
\* request of a client that sends one request at a time.
Serve(r) ==
    /\ last = NoExchange
    /\ LET out == CORSMiddleware(app, r)
       IN  /\ app' = out.app
           /\ last' = [req |-> r, resp |-> out.resp, trace |-> out.trace]
    /\ UNCHANGED inflight

\* The client has read the response; the application object stays.
Close ==
    /\ last # NoExchange
    /\ last' = NoExchange
    /\ UNCHANGED <<app, inflight>>

Next ==
    \/ \E r \in Requests : Serve(r)
    \/ Close

Spec == Init /\ [][Next]_vars

-----------------------------------------------------------------------------
(* The service handling several requests at once: the event loop runs one  *)
(* step of one request at a time, in any order.  A slot holds a request    *)
(* from its acceptance to its response.                                    *)

\* The server accepts request r on a free connection.
Accept(s, r) ==
    /\ inflight[s].pc \in {"idle", "done"}
    /\ inflight' = [inflight EXCEPT ![s] =
            [pc |-> "received", req |-> r, resp |-> Idle.resp, trace |-> <<>>,
             sent |-> 0]]
    /\ UNCHANGED <<app, last>>

\* CORSMiddleware.__call__ up to the call of the inner application: a
\* preflight gets its response here, anything else goes on to the router.
CorsStep(s) ==
    /\ inflight[s].pc = "received"
    /\ LET cur == inflight[s]
       IN  inflight' = [inflight EXCEPT ![s] =
                IF is_preflight(cur.req)
                THEN [cur EXCEPT !.pc = "responding",
                                 !.resp = preflight_response(app.cors, cur.req),
                                 !.trace = <<"CORSMiddleware", "preflight_response">>]
                ELSE [cur EXCEPT !.pc = "routing", !.trace = <<"CORSMiddleware">>]]
    /\ UNCHANGED <<app, last>>

\* Mutant of RouteStep: the request being routed is kept in one place shared
\* by all requests, so the step routes the request of the first slot that is
\* routing.
RouteStep_shared_request(s) ==
    /\ inflight[s].pc = "routing"
    /\ LET cur == inflight[s]
           shared == inflight[First({t \in Slots : inflight[t].pc = "routing"})].req
           out == Router(app, shared)
       IN  /\ app' = out.app
           /\ inflight' = [inflight EXCEPT ![s] =
                   [cur EXCEPT !.pc = "responding", !.resp = out.resp,
                               !.trace = cur.trace \o out.trace]]
    /\ UNCHANGED last

\* The router and the endpoint it dispatches to (the endpoints never await).
RouteStep(s) ==
    /\ inflight[s].pc = "routing"
    /\ LET cur == inflight[s]
           out == Router(app, cur.req)
       IN  /\ app' = out.app
           /\ inflight' = [inflight EXCEPT ![s] =
                   [cur EXCEPT !.pc = "responding", !.resp = out.resp,
                               !.trace = cur.trace \o out.trace]]
    /\ UNCHANGED last

\* Mutant of SendStep: a response is written only while no other request is
\* waiting to be routed.
SendStep_waiting(s) ==
    /\ inflight[s].pc = "responding"
    /\ \A t \in Slots \ {s} : inflight[t].pc # "received"
    /\ LET cur == inflight[s]
       IN  inflight' = [inflight EXCEPT ![s] =
                IF cur.req.origin # None /\ ~is_preflight(cur.req)
                THEN [cur EXCEPT !.pc = "done", !.sent = cur.sent + 1,
                                 !.resp = send(app.cors, cur.req, cur.resp),
                                 !.trace = Append(cur.trace, "send")]
                ELSE [cur EXCEPT !.pc = "done", !.sent = cur.sent + 1]]
    /\ UNCHANGED <<app, last>>

\* The response is sent; a routed response to a request with an Origin
\* passes through CORSMiddleware.send on its way out.
SendStep(s) ==
    /\ inflight[s].pc = "responding"
    /\ LET cur == inflight[s]
       IN  inflight' = [inflight EXCEPT ![s] =
                IF cur.req.origin # None /\ ~is_preflight(cur.req)
                THEN [cur EXCEPT !.pc = "done", !.sent = cur.sent + 1,
                                 !.resp = send(app.cors, cur.req, cur.resp),
                                 !.trace = Append(cur.trace, "send")]
                ELSE [cur EXCEPT !.pc = "done", !.sent = cur.sent + 1]]
    /\ UNCHANGED <<app, last>>

Step(s) == CorsStep(s) \/ RouteStep(s) \/ SendStep(s)

ConcNext ==
    \E s \in Slots :
        \/ \E r \in ConcRequests : Accept(s, r)
        \/ CorsStep(s)
        \/ RouteStep(s)
        \/ SendStep(s)

ConcSpec == Init /\ [][ConcNext]_vars

\* One request for each way through the chain: routed without an Origin,
\* routed and wrapped by send (and writing the schema cache), and a preflight.
FairRequests ==
    {r \in ConcRequests :
        \/ r.method = "GET" /\ r.path = PathRoot /\ r.origin = None
        \/ r.method = "GET" /\ r.path = PathOpenapi /\ r.origin = Origin1
        \/ r.method = "OPTIONS" /\ r.path = PathNonexistent /\ r.origin = Origin1}

FairNext ==
    \E s \in Slots :
        \/ \E r \in FairRequests : Accept(s, r)
        \/ CorsStep(s)
        \/ RouteStep(s)
        \/ SendStep(s)

\* The event loop runs every ready callback: no request's next step is
\* postponed forever.
FairSpec == Init /\ [][FairNext]_vars /\ \A s \in Slots : WF_vars(Step(s))

-----------------------------------------------------------------------------
(* Properties of the service handling one request at a time (Spec).        *)

Served == last.req.method # None

LastIsPreflight == last.req.method = "OPTIONS" /\ last.req.origin # None /\ last.req.acrm # None

HandlerPaths == {PathRoot, PathHealth}

\* C1: every GET / is answered 200 with the body
\* {"message": "Welcome to FastAPI Application"}, whatever its headers,
\* query or body and whatever was served before.
C1_GetRoot ==
    (last.req.method = "GET" /\ last.req.path = PathRoot)
        => /\ last.resp.status = 200
           /\ last.resp.body = <<"message", "Welcome to FastAPI Application">>

\* A GET / with Origin, Cookie, preflight headers, a query and a body, served
\* after the OpenAPI schema was cached by an earlier request.
C1_Witness ==
    /\ last.req.method = "GET" /\ last.req.path = PathRoot
    /\ last.req.origin = Origin1 /\ last.req.cookie /\ last.req.extra
    /\ last.req.acrm = "TRACE" /\ last.req.acrh = "x-custom"
    /\ app.openapi_schema # <<>>
    /\ last.resp.status = 200

\* C2: every GET /health is answered 200 with the body {"status": "healthy"}.
C2_GetHealth ==
    (last.req.method = "GET" /\ last.req.path = PathHealth)
        => /\ last.resp.status = 200
           /\ last.resp.body = <<"status", "healthy">>

C2_Witness ==
    /\ last.req.method = "GET" /\ last.req.path = PathHealth
    /\ last.req.origin = Origin1 /\ last.req.extra
    /\ app.openapi_schema # <<>>
    /\ last.resp.body = <<"status", "healthy">>

\* C3 as stated: every OPTIONS response carries
\* Access-Control-Allow-Origin: * and Access-Control-Allow-Credentials: true.
C3_Original ==
    last.req.method = "OPTIONS"
        => last.resp.headers.acao = "*" /\ last.resp.headers.acac = "true"

\* C3 amended: an OPTIONS request with an Origin header gets
\* Access-Control-Allow-Credentials: true and an Access-Control-Allow-Origin
\* that is the request's origin on a preflight or when a Cookie is sent and
\* "*" otherwise; an OPTIONS request without Origin gets neither header.
C3_OptionsCors ==
    last.req.method = "OPTIONS"
        => IF last.req.origin = None
           THEN last.resp.headers.acao = None /\ last.resp.headers.acac = None
           ELSE /\ last.resp.headers.acac = "true"
                /\ last.resp.headers.acao =
                      (IF last.req.acrm # None \/ last.req.cookie
                       THEN last.req.origin ELSE "*")

\* An OPTIONS request with Origin to a path without route, no preflight
\* header and no cookie: 404 carrying "*" and "true".
C3_Witness ==
    /\ last.req.method = "OPTIONS" /\ last.req.path = PathNonexistent
    /\ last.req.origin = Origin1 /\ last.req.acrm = None /\ ~last.req.cookie
    /\ last.resp.headers.acao = "*" /\ last.resp.headers.acac = "true"

\* C4 as stated: a non-GET request to "/" or "/health" is answered 405.
C4_Original ==
    (Served /\ last.req.method # "GET" /\ last.req.path \in HandlerPaths)
        => last.resp.status = 405

\* C4 amended: a non-GET request to "/" or "/health" is answered 405 unless
\* it is a CORS preflight (OPTIONS with Origin and
\* Access-Control-Request-Method), which the middleware answers 200 or 400;
\* in no case is the GET handler run or its payload returned.
C4_MethodNotAllowed ==
    (Served /\ last.req.method # "GET" /\ last.req.path \in HandlerPaths)
        => /\ last.resp.status = (IF LastIsPreflight
                                  THEN (IF last.req.acrm = "TRACE" THEN 400 ELSE 200)
                                  ELSE 405)
           /\ last.resp.body # <<"message", "Welcome to FastAPI Application">>
           /\ last.resp.body # <<"status", "healthy">>
           /\ \A i \in 1..Len(last.trace) : last.trace[i] \notin {"root", "health_check"}

C4_Witness ==
    /\ last.req.method = "POST" /\ last.req.path = PathRoot
    /\ last.resp.status = 405
    /\ last.trace = <<"CORSMiddleware", "router", "method_not_allowed">>

\* C5 as stated: a request to any path other than "/" and "/health" is
\* answered 404.
C5_Original ==
    (Served /\ last.req.path \notin HandlerPaths) => last.resp.status = 404

\* The paths FastAPI() and the two decorators register.
RegisteredPaths ==
    {PathRoot, PathHealth, PathOpenapi, PathDocs, <<"docs", "oauth2-redirect">>, <<"redoc">>}

\* The registered paths other than "/" followed by trailing slashes.
SlashVariants ==
    {Append(p, "") : p \in RegisteredPaths \ {PathRoot}}
        \cup {p \o <<"", "">> : p \in RegisteredPaths \ {PathRoot}}

\* C5 amended: a request that is no CORS preflight and whose path is none of
\* "/", "/health", the documentation routes ("/openapi.json", "/docs",
\* "/docs/oauth2-redirect", "/redoc") nor one of these other than "/" followed
\* by trailing slashes is answered 404 and runs no endpoint.
C5_NotFound ==
    (Served /\ ~LastIsPreflight
       /\ last.req.path \notin (RegisteredPaths \cup SlashVariants))
        => /\ last.resp.status = 404
           /\ last.resp.body = <<"detail", "Not Found">>
           /\ last.trace \in {<<"CORSMiddleware", "router", "not_found">>,
                              <<"CORSMiddleware", "router", "not_found", "send">>}

C5_Witness ==
    /\ last.req.method = "GET" /\ last.req.path = PathNonexistent
    /\ last.resp.status = 404
    /\ last.trace = <<"CORSMiddleware", "router", "not_found">>

\* C6 as stated: every response carries the Access-Control-Allow-* headers.
C6_Original ==
    Served => last.resp.headers.acao # None /\ last.resp.headers.acac # None

\* C6 amended: the middleware is the first to process every request; every
\* response to a request with an Origin header (200, 307, 400, 404 and 405
\* alike) carries Access-Control-Allow-Origin and
\* Access-Control-Allow-Credentials: true, a response to a request without
\* Origin carries neither; a preflight is answered by the middleware without
\* the router being called, naming the allowed methods.
C6_CorsBeforeRouting ==
    Served =>
        /\ last.trace[1] = "CORSMiddleware"
        /\ IF last.req.origin = None
           THEN /\ last.resp.headers.acao = None
                /\ last.resp.headers.acac = None
                /\ last.trace[2] = "router"
           ELSE /\ last.resp.headers.acao \in {"*", last.req.origin}
                /\ last.resp.headers.acac = "true"
        /\ LastIsPreflight =>
              /\ last.trace = <<"CORSMiddleware", "preflight_response">>
              /\ last.resp.headers.acam = ALL_METHODS
        /\ ~LastIsPreflight => last.trace[2] = "router"

\* A 405 that carries the CORS headers.
C6_Witness ==
    /\ last.req.origin = Origin1 /\ last.resp.status = 405
    /\ last.resp.headers.acao = "*" /\ last.resp.headers.acac = "true"
    /\ last.trace = <<"CORSMiddleware", "router", "method_not_allowed", "send">>

\* C7: the body returned for a request, after any history, is the body a
\* freshly started copy of the service returns for the same request.
C7_Deterministic ==
    Served => last.resp.body = CORSMiddleware(main, last.req).resp.body

\* GET /openapi.json answered by a service whose state differs from a fresh one.
C7_Witness ==
    /\ last.req.method = "GET" /\ last.req.path = PathOpenapi
    /\ app # main
    /\ last.resp.status = 200 /\ Len(last.resp.body) > 0

\* C8 as stated: handling a request leaves the process-wide state unchanged.
C8_Original == [][app' = app]_vars

C8_Config ==
    /\ app.title = "FastAPI Application"
    /\ app.description = "A modern FastAPI application with PostgreSQL"
    /\ app.version = "1.0.0"
    /\ app.cors = [allow_origins |-> {"*"}, allow_credentials |-> TRUE,
                   allow_methods |-> {"*"}, allow_headers |-> {"*"}]
    /\ Len(app.routes) = Cardinality(RegisteredPaths)
    /\ {app.routes[i].path : i \in 1..Len(app.routes)} = RegisteredPaths

\* C8 amended: the metadata, the CORS policy and the route table (the two
\* handlers and the four documentation routes) are the same in every
\* reachable state and the two handlers build their payloads without reading
\* state; the one mutation is app.openapi_schema, written once by the first
\* GET or HEAD /openapi.json and read by the later ones.
C8_FrameExceptSchemaCache ==
    /\ []C8_Config
    /\ [][/\ [app' EXCEPT !.openapi_schema = <<>>] = [app EXCEPT !.openapi_schema = <<>>]
          /\ app'.openapi_schema # app.openapi_schema
                => /\ app.openapi_schema = <<>>
                   /\ last'.req.method \in {"GET", "HEAD"}
                   /\ last'.req.path = PathOpenapi
                   /\ app'.openapi_schema = get_openapi(main)]_vars

\* A request handled after the schema was cached.
C8_Witness ==
    /\ app.openapi_schema # <<>>
    /\ last.req.method = "POST" /\ last.req.path = PathHealth
    /\ C8_Config

-----------------------------------------------------------------------------
(* Properties of the service handling several requests at once.            *)

\* C9 (ConcSpec): under every interleaving, the response a request receives
\* and the components that handled it are those of the same request handled
\* alone.
C9_Isolation ==
    \A s \in Slots :
        inflight[s].pc = "done"
            => /\ inflight[s].resp = CORSMiddleware(main, inflight[s].req).resp
               /\ inflight[s].trace = CORSMiddleware(main, inflight[s].req).trace

\* Two GET /openapi.json in flight together, one answered, one not yet.
C9_Witness ==
    \E s, t \in Slots :
        /\ s # t
        /\ inflight[s].pc = "done" /\ inflight[t].pc = "responding"
        /\ inflight[s].req.path = PathOpenapi /\ inflight[s].req.method = "GET"
        /\ inflight[t].req.path = PathOpenapi /\ inflight[t].req.method = "GET"

\* C10 (FairSpec): every accepted request is eventually answered, exactly
\* once, and a connection whose request is answered accepts any request
\* again.
C10_EventuallyAnswered ==
    /\ \A s \in Slots :
          (inflight[s].pc = "received")
              ~> (inflight[s].pc = "done" /\ inflight[s].sent = 1)
    /\ [](\A s \in Slots :
            /\ inflight[s].sent <= 1
            /\ inflight[s].pc = "done"
                  => \A r \in FairRequests : ENABLED Accept(s, r))

\* One request answered while another is still being handled.
C10_Witness ==
    \E s, t \in Slots :
        /\ s # t
        /\ inflight[s].pc = "done" /\ inflight[s].sent = 1
        /\ inflight[t].pc = "routing"

====
